---- MODULE Spec2Model ----
(***************************************************************************)
(* Model of velour_api/crud/_read.py: area filtering of detections and     *)
(* instance segmentations, the statement builders, the task-type probes,   *)
(* reconstruction of a full-size mask from a stored raster, and the        *)
(* collection of the label ids of an image.                                *)
(*                                                                         *)
(* The functions of _read.py are stateless reads of the database.  A state *)
(* is the stored data (db), one request (req: the function called and its  *)
(* arguments) and the outcome of that request (res).  Init draws db and    *)
(* req from bounded sets; each action applies the function req names.      *)
(***************************************************************************)
EXTENDS Integers, Sequences, FiniteSets, TLC

VARIABLES db, req, res

vars == <<db, req, res>>

(***************************************************************************)
(* Bounds of the model.                                                    *)
(***************************************************************************)
\* min_area and max_area range over None and 0..MaxArea
MaxArea == 5
\* a database holds at most MaxRows annotations of the candidate pool
MaxRows == 3
\* image width and height range over 1..MaxImageDim
MaxImageDim == 2
\* a stored raster covers at most MaxPatchPixels pixels
MaxPatchPixels == 4

(***************************************************************************)
(* Python values.                                                          *)
(***************************************************************************)
\* an optional float is <<>> (None) or <<v>>
None == << >>

Some(v) == <<v>>

\* the members of Task the code names, CLASSIFICATION for the remaining
\* kind, and NoTask for a task argument left at its default None
BBOX_OBJECT_DETECTION == "Task.BBOX_OBJECT_DETECTION"

POLY_OBJECT_DETECTION == "Task.POLY_OBJECT_DETECTION"

INSTANCE_SEGMENTATION == "Task.INSTANCE_SEGMENTATION"

CLASSIFICATION == "Task.CLASSIFICATION"

NoTask == "None"

Tasks == {BBOX_OBJECT_DETECTION, POLY_OBJECT_DETECTION,
          INSTANCE_SEGMENTATION, CLASSIFICATION}

Return(v) == [outcome |-> "return", value |-> v]

Raise(e, m) == [outcome |-> "raise", error |-> e, message |-> m]

Pending == [outcome |-> "pending"]

(***************************************************************************)
(* The area functions of the database, by name, and their value on a       *)
(* stored geometry.  A stored geometry is known by its value under each    *)
(* transform that applies to it: a detection boundary (a polygon) by       *)
(* its area and the area of its envelope, a segmentation shape (a raster)  *)
(* by its pixel count, the area of its envelope and the area of the        *)
(* convex hull of its boundary.                                            *)
(***************************************************************************)
EnvelopeArea == "ST_Area(ST_Envelope(x))"

ConvexHullArea == "ST_Area(ST_ConvexHull(ST_Boundary(ST_Polygon(x))))"

PolygonArea == "ST_Area(x)"

PixelCount == "ST_Count(x)"

ApplyAreaFn(fn, geom) ==
    CASE fn = EnvelopeArea -> geom.envelope
      [] fn = ConvexHullArea -> geom.hull
      [] fn = PolygonArea -> geom.area
      [] fn = PixelCount -> geom.count

(***************************************************************************)
(* Select statements.  A statement names the labeled table it selects,     *)
(* the conditions of its builder (dataset name, model name, is_instance    *)
(* or is_bbox) and the sequence of area predicates added to it.            *)
(***************************************************************************)
NoModel == "<no model>"

Where(stmt, pred) == [stmt EXCEPT !.where = Append(@, pred)]

AreaPredicate(area_fn, column, op, bound) ==
    [fn |-> area_fn, column |-> column, op |-> op, bound |-> bound]

\* _filter_instance_segmentations_by_area with the truthiness test
\* "if min_area:" in place of "if min_area is not None:"
_filter_instance_segmentations_by_area_truthy(stmt, seg_table, task_for_area_computation, min_area, max_area) ==
    IF min_area = None /\ max_area = None
    THEN Return(stmt)
    ELSE LET area_fn ==
                 IF task_for_area_computation = BBOX_OBJECT_DETECTION
                 THEN EnvelopeArea
                 ELSE IF task_for_area_computation = POLY_OBJECT_DETECTION
                 THEN ConvexHullArea
                 ELSE PixelCount
             column == <<seg_table, "shape">>
             s1 == IF min_area # None /\ min_area[1] # 0
                   THEN Where(stmt, AreaPredicate(area_fn, column, ">=",
                                                  min_area[1]))
                   ELSE stmt
             s2 == IF max_area # None /\ max_area[1] # 0
                   THEN Where(s1, AreaPredicate(area_fn, column, "<=",
                                                max_area[1]))
                   ELSE s1
         IN  Return(s2)

\* _filter_instance_segmentations_by_area with the polygon branch computing
\* the envelope area
_filter_instance_segmentations_by_area_envelope(stmt, seg_table, task_for_area_computation, min_area, max_area) ==
    IF min_area = None /\ max_area = None
    THEN Return(stmt)
    ELSE LET area_fn ==
                 IF task_for_area_computation = BBOX_OBJECT_DETECTION
                 THEN EnvelopeArea
                 ELSE IF task_for_area_computation = POLY_OBJECT_DETECTION
                 THEN EnvelopeArea
                 ELSE PixelCount
             column == <<seg_table, "shape">>
             s1 == IF min_area # None
                   THEN Where(stmt, AreaPredicate(area_fn, column, ">=",
                                                  min_area[1]))
                   ELSE stmt
             s2 == IF max_area # None
                   THEN Where(s1, AreaPredicate(area_fn, column, "<=",
                                                max_area[1]))
                   ELSE s1
         IN  Return(s2)

_filter_instance_segmentations_by_area(stmt, seg_table, task_for_area_computation, min_area, max_area) ==
    IF min_area = None /\ max_area = None
    THEN Return(stmt)
    ELSE LET area_fn ==
                 IF task_for_area_computation = BBOX_OBJECT_DETECTION
                 THEN EnvelopeArea
                 ELSE IF task_for_area_computation = POLY_OBJECT_DETECTION
                 THEN ConvexHullArea
                 ELSE PixelCount
             column == <<seg_table, "shape">>
             s1 == IF min_area # None
                   THEN Where(stmt, AreaPredicate(area_fn, column, ">=",
                                                  min_area[1]))
                   ELSE stmt
             s2 == IF max_area # None
                   THEN Where(s1, AreaPredicate(area_fn, column, "<=",
                                                max_area[1]))
                   ELSE s1
         IN  Return(s2)

AreaTaskMessage == "Expected task_for_area_computation to be a detection task"

\* _filter_object_detections_by_area with the test for absent bounds moved
\* after the choice of the area function
_filter_object_detections_by_area_late_return(stmt, det_table, task_for_area_computation, min_area, max_area) ==
    IF task_for_area_computation \notin
           {BBOX_OBJECT_DETECTION, POLY_OBJECT_DETECTION}
    THEN Raise("ValueError", AreaTaskMessage)
    ELSE IF min_area = None /\ max_area = None
    THEN Return(stmt)
    ELSE LET area_fn ==
                 IF task_for_area_computation = BBOX_OBJECT_DETECTION
                 THEN EnvelopeArea
                 ELSE PolygonArea
             column == <<det_table, "boundary">>
             s1 == IF min_area # None
                   THEN Where(stmt, AreaPredicate(area_fn, column, ">=",
                                                  min_area[1]))
                   ELSE stmt
             s2 == IF max_area # None
                   THEN Where(s1, AreaPredicate(area_fn, column, "<=",
                                                max_area[1]))
                   ELSE s1
         IN  Return(s2)

_filter_object_detections_by_area(stmt, det_table, task_for_area_computation, min_area, max_area) ==
    IF min_area = None /\ max_area = None
    THEN Return(stmt)
    ELSE IF task_for_area_computation \notin
                {BBOX_OBJECT_DETECTION, POLY_OBJECT_DETECTION}
    THEN Raise("ValueError", AreaTaskMessage)
    ELSE LET area_fn ==
                 IF task_for_area_computation = BBOX_OBJECT_DETECTION
                 THEN EnvelopeArea
                 ELSE PolygonArea
             column == <<det_table, "boundary">>
             s1 == IF min_area # None
                   THEN Where(stmt, AreaPredicate(area_fn, column, ">=",
                                                  min_area[1]))
                   ELSE stmt
             s2 == IF max_area # None
                   THEN Where(s1, AreaPredicate(area_fn, column, "<=",
                                                max_area[1]))
                   ELSE s1
         IN  Return(s2)

(***************************************************************************)
(* The statement builders.                                                 *)
(***************************************************************************)
Select(table, dataset_name, model_name, flag) ==
    [select |-> table, dataset_name |-> dataset_name,
     model_name |-> model_name, flag |-> flag, where |-> << >>]

TaskMessage == "Expected task to be a detection task"

_instance_segmentations_in_dataset_statement(dataset_name, min_area, max_area, task_for_area_computation) ==
    _filter_instance_segmentations_by_area(
        Select("LabeledGroundTruthSegmentation", dataset_name, NoModel, TRUE),
        "GroundTruthSegmentation",
        task_for_area_computation, min_area, max_area)

\* _object_detections_in_dataset_statement taking the area task from its
\* task argument when task_for_area_computation is left at None
_object_detections_in_dataset_statement_task_default(dataset_name, task, min_area, max_area, task_for_area_computation) ==
    IF task \notin {POLY_OBJECT_DETECTION, BBOX_OBJECT_DETECTION}
    THEN Raise("ValueError", TaskMessage)
    ELSE _filter_object_detections_by_area(
             Select("LabeledGroundTruthDetection", dataset_name, NoModel,
                    task = BBOX_OBJECT_DETECTION),
             "GroundTruthDetection",
             IF task_for_area_computation = NoTask
             THEN task
             ELSE task_for_area_computation,
             min_area, max_area)

_object_detections_in_dataset_statement(dataset_name, task, min_area, max_area, task_for_area_computation) ==
    IF task \notin {POLY_OBJECT_DETECTION, BBOX_OBJECT_DETECTION}
    THEN Raise("ValueError", TaskMessage)
    ELSE _filter_object_detections_by_area(
             Select("LabeledGroundTruthDetection", dataset_name, NoModel,
                    task = BBOX_OBJECT_DETECTION),
             "GroundTruthDetection",
             task_for_area_computation, min_area, max_area)

_model_instance_segmentation_preds_statement(model_name, dataset_name, min_area, max_area, task_for_area_computation) ==
    _filter_instance_segmentations_by_area(
        Select("LabeledPredictedSegmentation", dataset_name, model_name, TRUE),
        "PredictedSegmentation",
        task_for_area_computation, min_area, max_area)

_model_object_detection_preds_statement(model_name, dataset_name, task, min_area, max_area, task_for_area_computation) ==
    IF task \notin {POLY_OBJECT_DETECTION, BBOX_OBJECT_DETECTION}
    THEN Raise("ValueError", TaskMessage)
    ELSE _filter_object_detections_by_area(
             Select("LabeledPredictedDetection", dataset_name, model_name,
                    task = BBOX_OBJECT_DETECTION),
             "PredictedDetection",
             task_for_area_computation, min_area, max_area)

(***************************************************************************)
(* Stored data.  Every annotation row holds the image it belongs to, its   *)
(* geometry and the sequence of the label ids of its labeled rows (one     *)
(* labeled row per entry); a prediction also holds its model.  The         *)
(* candidate rows below are the pool a database draws its rows from.       *)
(***************************************************************************)
DatasetNames == {"D1", "D2"}

ModelNames == {"M1", "M2"}

Images ==
    { [id |-> 1, dataset |-> "D1"], [id |-> 2, dataset |-> "D2"],
      [id |-> 3, dataset |-> "D1"] }

ImageIds == {i.id : i \in Images}

\* label id -> (key, value); the label table holds each pair once
Labels ==
    (1 :> <<"car", "present">>) @@ (2 :> <<"dog", "present">>) @@
    (3 :> <<"car", "absent">>)

Polygon(a, e) == [area |-> a, envelope |-> e]

Raster(c, h, e) == [count |-> c, hull |-> h, envelope |-> e]

GroundTruthDetectionPool ==
    { [table |-> "GroundTruthDetection", id |-> 1, image |-> 1,
       is_bbox |-> TRUE, boundary |-> Polygon(4, 4), labels |-> <<1>>],
      [table |-> "GroundTruthDetection", id |-> 2, image |-> 1,
       is_bbox |-> TRUE, boundary |-> Polygon(5, 5), labels |-> <<1>>],
      [table |-> "GroundTruthDetection", id |-> 3, image |-> 1,
       is_bbox |-> FALSE, boundary |-> Polygon(2, 4), labels |-> <<2, 1>>],
      [table |-> "GroundTruthDetection", id |-> 4, image |-> 2,
       is_bbox |-> FALSE, boundary |-> Polygon(5, 6), labels |-> <<3>>],
      [table |-> "GroundTruthDetection", id |-> 5, image |-> 3,
       is_bbox |-> FALSE, boundary |-> Polygon(1, 2), labels |-> << >>],
      [table |-> "GroundTruthDetection", id |-> 6, image |-> 3,
       is_bbox |-> FALSE, boundary |-> Polygon(0, 0), labels |-> <<2>>] }

GroundTruthSegmentationPool ==
    { [table |-> "GroundTruthSegmentation", id |-> 1, image |-> 1,
       is_instance |-> TRUE, shape |-> Raster(4, 4, 4), labels |-> <<1>>],
      [table |-> "GroundTruthSegmentation", id |-> 2, image |-> 1,
       is_instance |-> TRUE, shape |-> Raster(2, 3, 4), labels |-> <<2, 1>>],
      [table |-> "GroundTruthSegmentation", id |-> 3, image |-> 1,
       is_instance |-> FALSE, shape |-> Raster(5, 6, 6), labels |-> <<3>>],
      [table |-> "GroundTruthSegmentation", id |-> 4, image |-> 2,
       is_instance |-> TRUE, shape |-> Raster(1, 1, 1), labels |-> <<1>>],
      [table |-> "GroundTruthSegmentation", id |-> 5, image |-> 3,
       is_instance |-> TRUE, shape |-> Raster(0, 0, 2), labels |-> <<3>>],
      [table |-> "GroundTruthSegmentation", id |-> 6, image |-> 3,
       is_instance |-> TRUE, shape |-> Raster(3, 3, 3), labels |-> << >>] }

PredictedDetectionPool ==
    { [table |-> "PredictedDetection", id |-> 1, image |-> 1, model |-> "M1",
       is_bbox |-> TRUE, boundary |-> Polygon(4, 4), labels |-> <<1>>],
      [table |-> "PredictedDetection", id |-> 2, image |-> 1, model |-> "M2",
       is_bbox |-> FALSE, boundary |-> Polygon(2, 4), labels |-> <<2>>],
      [table |-> "PredictedDetection", id |-> 3, image |-> 2, model |-> "M1",
       is_bbox |-> FALSE, boundary |-> Polygon(5, 6), labels |-> <<1>>] }

PredictedSegmentationPool ==
    { [table |-> "PredictedSegmentation", id |-> 1, image |-> 1,
       model |-> "M1", is_instance |-> TRUE, shape |-> Raster(4, 4, 4),
       labels |-> <<1>>],
      [table |-> "PredictedSegmentation", id |-> 2, image |-> 2,
       model |-> "M2", is_instance |-> TRUE, shape |-> Raster(2, 3, 4),
       labels |-> <<2>>],
      [table |-> "PredictedSegmentation", id |-> 3, image |-> 1,
       model |-> "M1", is_instance |-> FALSE, shape |-> Raster(5, 6, 6),
       labels |-> <<1>>] }

GroundTruthClassificationPool ==
    { [table |-> "GroundTruthClassification", id |-> 1, image |-> 1,
       label |-> 3],
      [table |-> "GroundTruthClassification", id |-> 2, image |-> 1,
       label |-> 1],
      [table |-> "GroundTruthClassification", id |-> 3, image |-> 2,
       label |-> 2] }

Pool ==
    GroundTruthDetectionPool \cup GroundTruthSegmentationPool \cup
    PredictedDetectionPool \cup PredictedSegmentationPool \cup
    GroundTruthClassificationPool

Database(rows) ==
    [images |-> Images,
     ground_truth_detections |->
         {a \in rows : a.table = "GroundTruthDetection"},
     ground_truth_segmentations |->
         {a \in rows : a.table = "GroundTruthSegmentation"},
     predicted_detections |->
         {a \in rows : a.table = "PredictedDetection"},
     predicted_segmentations |->
         {a \in rows : a.table = "PredictedSegmentation"},
     ground_truth_classifications |->
         {a \in rows : a.table = "GroundTruthClassification"}]

Databases == {Database(rows) : rows \in {s \in SUBSET Pool : Cardinality(s) <= MaxRows}}

(***************************************************************************)
(* The rows a statement selects: the labeled rows of the annotations of    *)
(* its table that satisfy the join and where conditions of its builder     *)
(* and every area predicate added to it.                                   *)
(***************************************************************************)
DatasetOf(d, image_id) == (CHOOSE i \in d.images : i.id = image_id).dataset

Annotations(d, stmt) ==
    CASE stmt.select = "LabeledGroundTruthSegmentation" ->
             d.ground_truth_segmentations
      [] stmt.select = "LabeledPredictedSegmentation" ->
             d.predicted_segmentations
      [] stmt.select = "LabeledGroundTruthDetection" ->
             d.ground_truth_detections
      [] stmt.select = "LabeledPredictedDetection" ->
             d.predicted_detections

IsSegmentationStatement(stmt) ==
    stmt.select \in {"LabeledGroundTruthSegmentation",
                     "LabeledPredictedSegmentation"}

Geometry(a, column) == IF column[2] = "shape" THEN a.shape ELSE a.boundary

Holds(pred, a) ==
    LET v == ApplyAreaFn(pred.fn, Geometry(a, pred.column))
    IN  IF pred.op = ">=" THEN v >= pred.bound ELSE v <= pred.bound

Matches(d, stmt, a) ==
    /\ DatasetOf(d, a.image) = stmt.dataset_name
    /\ stmt.model_name = NoModel \/ a.model = stmt.model_name
    /\ IF IsSegmentationStatement(stmt)
       THEN a.is_instance
       ELSE a.is_bbox = stmt.flag
    /\ \A i \in 1..Len(stmt.where) : Holds(stmt.where[i], a)

Rows(d, stmt) ==
    UNION { {[annotation |-> a, n |-> i, label |-> a.labels[i]] :
                i \in 1..Len(a.labels)} :
            a \in {b \in Annotations(d, stmt) : Matches(d, stmt, b)} }

Exists(d, stmt) == Rows(d, stmt) # {}

(***************************************************************************)
(* Requests for the area filters and the statement builders.               *)
(***************************************************************************)
AreaBounds == {None} \cup {Some(v) : v \in 0..MaxArea}

TaskArguments == Tasks \cup {NoTask}

SegmentationStatements ==
    {Select("LabeledGroundTruthSegmentation", d, NoModel, TRUE) :
         d \in DatasetNames}
    \cup {Select("LabeledPredictedSegmentation", d, m, TRUE) :
              d \in DatasetNames, m \in ModelNames}

DetectionStatements ==
    {Select("LabeledGroundTruthDetection", d, NoModel, b) :
         d \in DatasetNames, b \in BOOLEAN}
    \cup {Select("LabeledPredictedDetection", d, m, b) :
              d \in DatasetNames, m \in ModelNames, b \in BOOLEAN}

\* the annotation table a statement joins: its area column is the one the
\* filter is given
JoinedTable(stmt) ==
    CASE stmt.select = "LabeledGroundTruthSegmentation" ->
             "GroundTruthSegmentation"
      [] stmt.select = "LabeledPredictedSegmentation" ->
             "PredictedSegmentation"
      [] stmt.select = "LabeledGroundTruthDetection" ->
             "GroundTruthDetection"
      [] stmt.select = "LabeledPredictedDetection" ->
             "PredictedDetection"

AreaRequests ==
    {[op |-> "_filter_instance_segmentations_by_area", stmt |-> s,
      table |-> JoinedTable(s), task_for_area_computation |-> t,
      min_area |-> lo, max_area |-> hi] :
         s \in SegmentationStatements, t \in TaskArguments,
         lo \in AreaBounds, hi \in AreaBounds}
    \cup
    {[op |-> "_filter_object_detections_by_area", stmt |-> s,
      table |-> JoinedTable(s), task_for_area_computation |-> t,
      min_area |-> lo, max_area |-> hi] :
         s \in DetectionStatements, t \in TaskArguments,
         lo \in AreaBounds, hi \in AreaBounds}
    \cup
    {[op |-> "_instance_segmentations_in_dataset_statement",
      dataset_name |-> d, task_for_area_computation |-> t,
      min_area |-> lo, max_area |-> hi] :
         d \in DatasetNames, t \in TaskArguments,
         lo \in AreaBounds, hi \in AreaBounds}
    \cup
    {[op |-> "_object_detections_in_dataset_statement",
      dataset_name |-> d, task |-> k, task_for_area_computation |-> t,
      min_area |-> lo, max_area |-> hi] :
         d \in DatasetNames, k \in Tasks, t \in TaskArguments,
         lo \in AreaBounds, hi \in AreaBounds}
    \cup
    {[op |-> "_model_instance_segmentation_preds_statement",
      model_name |-> m, dataset_name |-> d, task_for_area_computation |-> t,
      min_area |-> lo, max_area |-> hi] :
         m \in ModelNames, d \in DatasetNames, t \in TaskArguments,
         lo \in AreaBounds, hi \in AreaBounds}
    \cup
    {[op |-> "_model_object_detection_preds_statement",
      model_name |-> m, dataset_name |-> d, task |-> k,
      task_for_area_computation |-> t, min_area |-> lo, max_area |-> hi] :
         m \in ModelNames, d \in DatasetNames, k \in Tasks,
         t \in TaskArguments, lo \in AreaBounds, hi \in AreaBounds}

InitArea ==
    /\ db = Database(Pool)
    /\ req \in AreaRequests
    /\ res = Pending

FilterInstanceSegmentationsByArea ==
    /\ req.op = "_filter_instance_segmentations_by_area"
    /\ res' = _filter_instance_segmentations_by_area(
                  req.stmt, req.table, req.task_for_area_computation,
                  req.min_area, req.max_area)
    /\ UNCHANGED <<db, req>>

FilterObjectDetectionsByArea ==
    /\ req.op = "_filter_object_detections_by_area"
    /\ res' = _filter_object_detections_by_area(
                  req.stmt, req.table, req.task_for_area_computation,
                  req.min_area, req.max_area)
    /\ UNCHANGED <<db, req>>

InstanceSegmentationsInDatasetStatement ==
    /\ req.op = "_instance_segmentations_in_dataset_statement"
    /\ res' = _instance_segmentations_in_dataset_statement(
                  req.dataset_name, req.min_area, req.max_area,
                  req.task_for_area_computation)
    /\ UNCHANGED <<db, req>>

ObjectDetectionsInDatasetStatement ==
    /\ req.op = "_object_detections_in_dataset_statement"
    /\ res' = _object_detections_in_dataset_statement(
                  req.dataset_name, req.task, req.min_area, req.max_area,
                  req.task_for_area_computation)
    /\ UNCHANGED <<db, req>>

ModelInstanceSegmentationPredsStatement ==
    /\ req.op = "_model_instance_segmentation_preds_statement"
    /\ res' = _model_instance_segmentation_preds_statement(
                  req.model_name, req.dataset_name, req.min_area,
                  req.max_area, req.task_for_area_computation)
    /\ UNCHANGED <<db, req>>

ModelObjectDetectionPredsStatement ==
    /\ req.op = "_model_object_detection_preds_statement"
    /\ res' = _model_object_detection_preds_statement(
                  req.model_name, req.dataset_name, req.task, req.min_area,
                  req.max_area, req.task_for_area_computation)
    /\ UNCHANGED <<db, req>>

NextArea ==
    \/ FilterInstanceSegmentationsByArea
    \/ FilterObjectDetectionsByArea
    \/ InstanceSegmentationsInDatasetStatement
    \/ ObjectDetectionsInDatasetStatement
    \/ ModelInstanceSegmentationPredsStatement
    \/ ModelObjectDetectionPredsStatement

SpecArea == InitArea /\ [][NextArea]_vars

(***************************************************************************)
(* Claims about the area filters (C1 to C5), under SpecArea.               *)
(***************************************************************************)
Done == res.outcome # "pending"

IsFilterRequest ==
    req.op \in {"_filter_instance_segmentations_by_area",
                "_filter_object_detections_by_area"}

EntityKind ==
    IF req.op = "_filter_instance_segmentations_by_area"
    THEN "segmentation"
    ELSE "detection"

BoundGiven == req.min_area # None \/ req.max_area # None

NumberOfBounds ==
    (IF req.min_area # None THEN 1 ELSE 0) +
    (IF req.max_area # None THEN 1 ELSE 0)

\* the transform of each (entity kind, area task) that has area semantics;
\* a segmentation has no associated detection task when the task is absent
\* or is the segmentation task itself
AreaTransformTable ==
    (<<"detection", BBOX_OBJECT_DETECTION>> :> EnvelopeArea) @@
    (<<"detection", POLY_OBJECT_DETECTION>> :> PolygonArea) @@
    (<<"segmentation", BBOX_OBJECT_DETECTION>> :> EnvelopeArea) @@
    (<<"segmentation", POLY_OBJECT_DETECTION>> :> ConvexHullArea) @@
    (<<"segmentation", NoTask>> :> PixelCount) @@
    (<<"segmentation", INSTANCE_SEGMENTATION>> :> PixelCount)

HasAreaSemantics ==
    <<EntityKind, req.task_for_area_computation>> \in DOMAIN AreaTransformTable

\* the predicates the filter added to the statement it was given
AddedPredicates ==
    SubSeq(res.value.where, Len(req.stmt.where) + 1, Len(res.value.where))

InRange(a) ==
    /\ req.min_area = None \/ a >= req.min_area[1]
    /\ req.max_area = None \/ a <= req.max_area[1]

\* C1 (as stated): with at least one bound present and an area task that has
\* no area semantics for the entity kind, the filter raises an error and
\* never returns a statement filtered by pixel count.
C1_UnsupportedAreaTaskRaises ==
    (Done /\ IsFilterRequest /\ BoundGiven /\ ~HasAreaSemantics)
        => res.outcome = "raise"

\* C2: with both bounds absent the filter returns the statement it was given,
\* unchanged and without raising, for both entity kinds and every area task.
C2_UnboundedIsIdentity ==
    (Done /\ IsFilterRequest /\ ~BoundGiven)
        => res = Return(req.stmt)

C2_Witness ==
    /\ Done
    /\ req.op = "_filter_object_detections_by_area"
    /\ ~BoundGiven
    /\ req.task_for_area_computation = CLASSIFICATION
    /\ res = Return(req.stmt)

\* C3: a returned filtered statement selects exactly the rows of the base
\* statement whose area under the one transform of its added predicates lies
\* in the range, both bounds inclusive, each bound applied when it is given
\* (a bound of 0 included).
C3_RangeSelectsExactly ==
    (Done /\ IsFilterRequest /\ BoundGiven /\ res.outcome = "return")
        => /\ AddedPredicates # << >>
           /\ LET p == AddedPredicates[1]
              IN  /\ \A i \in 1..Len(AddedPredicates) :
                         /\ AddedPredicates[i].fn = p.fn
                         /\ AddedPredicates[i].column = p.column
                  /\ Rows(db, res.value) =
                         {r \in Rows(db, req.stmt) :
                              InRange(ApplyAreaFn(
                                  p.fn, Geometry(r.annotation, p.column)))}

C3_Witness ==
    /\ Done
    /\ req.op = "_filter_instance_segmentations_by_area"
    /\ req.task_for_area_computation = NoTask
    /\ req.min_area = Some(4)
    /\ req.max_area = Some(4)
    /\ res.outcome = "return"
    /\ \E r \in Rows(db, res.value) : r.annotation.shape.count = 4
    /\ \E r \in Rows(db, req.stmt) : r.annotation.shape.count # 4

\* C4 (as stated): with both bounds given and min_area > max_area the filter
\* raises an error and returns no statement.
C4_InvertedRangeRaises ==
    (/\ Done
     /\ IsFilterRequest
     /\ req.min_area # None
     /\ req.max_area # None
     /\ req.min_area[1] > req.max_area[1])
        => res.outcome = "raise"

\* C5: with at least one bound present and an (entity kind, area task) of the
\* table, the filter returns the statement with one predicate per given
\* bound, every one of them on the transform the table gives and on the
\* geometry column of the entity's table.
C5_TransformTable ==
    (Done /\ IsFilterRequest /\ BoundGiven /\ HasAreaSemantics)
        => /\ res.outcome = "return"
           /\ Len(AddedPredicates) = NumberOfBounds
           /\ \A i \in 1..Len(AddedPredicates) :
                  /\ AddedPredicates[i].fn =
                         AreaTransformTable[
                             <<EntityKind, req.task_for_area_computation>>]
                  /\ AddedPredicates[i].column =
                         <<req.table,
                           IF EntityKind = "segmentation"
                           THEN "shape"
                           ELSE "boundary">>

C5_Witness ==
    /\ Done
    /\ req.op = "_filter_instance_segmentations_by_area"
    /\ req.task_for_area_computation = POLY_OBJECT_DETECTION
    /\ req.min_area # None
    /\ req.max_area # None
    /\ res.outcome = "return"
    /\ Len(res.value.where) = 2
    /\ res.value.where[1].fn = ConvexHullArea
    /\ res.value.where[2].fn = ConvexHullArea

(***************************************************************************)
(* Mask reconstruction.  A stored raster has an upper left corner, a       *)
(* width and a height in pixels and one value per pixel; an image is a     *)
(* size, a mode and a value per pixel (x, y), 0 <= x < width,              *)
(* 0 <= y < height.                                                        *)
(***************************************************************************)
PixelValues == {0, 1, 2}

Modes == {"L", "RGB"}

Min(S) == CHOOSE v \in S : \A w \in S : v <= w

Max(S) == CHOOSE v \in S : \A w \in S : v >= w

PixelsOf(width, height) == (0..(width - 1)) \X (0..(height - 1))

\* ST_Envelope(raster) as the ring of a GeoJSON polygon
ST_Envelope(raster) ==
    LET x0 == raster.upperleftx
        y0 == raster.upperlefty
        x1 == raster.upperleftx + raster.width
        y1 == raster.upperlefty + raster.height
    IN  << <<x0, y0>>, <<x1, y0>>, <<x1, y1>>, <<x0, y1>>, <<x0, y0>> >>

_get_bounding_box_of_raster(raster) ==
    LET ring == ST_Envelope(raster)
        xs == {ring[i][1] : i \in 1..Len(ring)}
        ys == {ring[i][2] : i \in 1..Len(ring)}
    IN  <<Min(xs), Min(ys), Max(xs), Max(ys)>>

\* Image.open of ST_AsPNG(raster): the patch, of the raster's size
ImageOpen(raster) ==
    [size |-> <<raster.width, raster.height>>, mode |-> raster.mode,
     pixels |-> raster.pixels]

ImageNew(size, mode) ==
    [size |-> size, mode |-> mode,
     pixels |-> [p \in PixelsOf(size[1], size[2]) |-> 0]]

\* Image.paste(im, box): the pixels of ret inside the box take the value of
\* im; the part of the box outside ret is dropped
ImagePaste(ret, im, box) ==
    [ret EXCEPT !.pixels =
        [p \in DOMAIN ret.pixels |->
            IF /\ box[1] <= p[1] /\ p[1] < box[3]
               /\ box[2] <= p[2] /\ p[2] < box[4]
            THEN im.pixels[<<p[1] - box[1], p[2] - box[2]>>]
            ELSE ret.pixels[p]]]

\* the lambda of the point call with "x != 0" in place of "x == 1"
PointLambdaNonZero(x) == IF x # 0 THEN 255 ELSE 0

PointLambda(x) == IF x = 1 THEN 255 ELSE 0

ImagePoint(ret) ==
    [ret EXCEPT !.pixels = [p \in DOMAIN ret.pixels |-> PointLambda(ret.pixels[p])]]

\* convert("1"): a greyscale image to a two-level one
ImageConvert1(ret) ==
    [ret EXCEPT !.mode = "1",
                !.pixels = [p \in DOMAIN ret.pixels |->
                               IF ret.pixels[p] > 127 THEN 255 ELSE 0]]

\* save(format="PNG") of a two-level image: the header's width and height
\* and one bit per pixel, row by row
ImageSavePNG(ret) ==
    [width |-> ret.size[1], height |-> ret.size[2],
     data |-> [i \in 1..(ret.size[1] * ret.size[2]) |->
                  IF ret.pixels[<<(i - 1) % ret.size[1],
                                  (i - 1) \div ret.size[1]>>] = 255
                  THEN 1
                  ELSE 0]]

b64encode(bytes) == [encoding |-> "base64", bytes |-> bytes]

\* lines 42 to 54: allocate, paste, binarize, encode
EncodeFullMask(raster, enveloping_box, image) ==
    LET ret0 == ImageNew(<<image.width, image.height>>, raster.mode)
        ret1 == ImagePaste(ret0, raster, enveloping_box)
        ret2 == ImageConvert1(ImagePoint(ret1))
    IN  [outcome |-> "return",
         value |-> b64encode(ImageSavePNG(ret2)),
         steps |-> <<"envelope", "open", "new", "paste", "point",
                     "convert", "save", "b64encode">>]

\* _raster_to_png_b64 without the assertion on the mode of the patch
_raster_to_png_b64_no_assert(raster, image) ==
    EncodeFullMask(ImageOpen(raster), _get_bounding_box_of_raster(raster), image)

_raster_to_png_b64(raster, image) ==
    LET enveloping_box == _get_bounding_box_of_raster(raster)
        patch == ImageOpen(raster)
    IN  IF patch.mode # "L"
        THEN [outcome |-> "raise", error |-> "AssertionError",
              message |-> "raster.mode == L",
              steps |-> <<"envelope", "open">>]
        ELSE EncodeFullMask(patch, enveloping_box, image)

PatchSizes ==
    {s \in (1..MaxPatchPixels) \X (1..MaxPatchPixels) :
         s[1] * s[2] <= MaxPatchPixels}

StoredRasters ==
    UNION { {[upperleftx |-> x, upperlefty |-> y, width |-> s[1],
              height |-> s[2], mode |-> m, pixels |-> px] :
                 x \in 0..(MaxImageDim - 1), y \in 0..(MaxImageDim - 1),
                 m \in Modes,
                 px \in [PixelsOf(s[1], s[2]) -> PixelValues]} :
            s \in PatchSizes }

MaskRequests ==
    {[op |-> "_raster_to_png_b64", raster |-> r,
      image |-> [width |-> w, height |-> h]] :
         r \in StoredRasters, w \in 1..MaxImageDim, h \in 1..MaxImageDim}

InitMask ==
    /\ db = Database({})
    /\ req \in MaskRequests
    /\ res = Pending

RasterToPngB64 ==
    /\ req.op = "_raster_to_png_b64"
    /\ res' = _raster_to_png_b64(req.raster, req.image)
    /\ UNCHANGED <<db, req>>

NextMask == RasterToPngB64

SpecMask == InitMask /\ [][NextMask]_vars

(***************************************************************************)
(* Claims about mask reconstruction (C6 to C8), under SpecMask.            *)
(***************************************************************************)
\* the envelope of the requested raster, as the stored raster gives it
EnvelopeXMin == req.raster.upperleftx

EnvelopeYMin == req.raster.upperlefty

EnvelopeXMax == req.raster.upperleftx + req.raster.width

EnvelopeYMax == req.raster.upperlefty + req.raster.height

EnvelopeInsideImage ==
    /\ 0 <= EnvelopeXMin /\ EnvelopeXMax <= req.image.width
    /\ 0 <= EnvelopeYMin /\ EnvelopeYMax <= req.image.height

\* decoding of the encoded mask: the base64 text to PNG bytes to pixels
DecodedMask(text) ==
    LET png == text.bytes
    IN  [size |-> <<png.width, png.height>>,
         pixels |-> [p \in PixelsOf(png.width, png.height) |->
                        png.data[p[2] * png.width + p[1] + 1]]]

\* C6: for a greyscale patch whose envelope lies inside the image, the
\* decoded mask has the size of the image and pixel (x, y) is foreground
\* exactly when it lies inside the envelope and the patch pixel
\* (x - x_min, y - y_min) is 1; every other pixel is background.
C6_MaskRoundTrip ==
    (Done /\ req.raster.mode = "L" /\ EnvelopeInsideImage)
        => /\ res.outcome = "return"
           /\ LET mask == DecodedMask(res.value)
              IN  /\ mask.size = <<req.image.width, req.image.height>>
                  /\ \A p \in PixelsOf(req.image.width, req.image.height) :
                         LET inside ==
                                 /\ EnvelopeXMin <= p[1] /\ p[1] < EnvelopeXMax
                                 /\ EnvelopeYMin <= p[2] /\ p[2] < EnvelopeYMax
                             foreground ==
                                 /\ inside
                                 /\ req.raster.pixels[<<p[1] - EnvelopeXMin,
                                                       p[2] - EnvelopeYMin>>]
                                        = 1
                         IN  mask.pixels[p] = IF foreground THEN 1 ELSE 0

C6_Witness ==
    /\ Done
    /\ req.raster.mode = "L"
    /\ EnvelopeInsideImage
    /\ req.raster.upperleftx = 1
    /\ req.image.width = 2
    /\ req.image.height = 2
    /\ req.raster.width = 1
    /\ req.raster.height = 2
    /\ req.raster.pixels[<<0, 0>>] = 1
    /\ req.raster.pixels[<<0, 1>>] = 2
    /\ res.outcome = "return"
    /\ res.value.bytes.data = <<0, 1, 0, 0>>

\* C7 (as stated): when the envelope's x_max exceeds the image width, mask
\* reconstruction raises an error instead of returning a clipped mask.
C7_EnvelopeBeyondWidthRaises ==
    (Done /\ req.raster.mode = "L" /\ EnvelopeXMax > req.image.width)
        => res.outcome = "raise"

\* C8: for a patch that is not single-channel greyscale, mask reconstruction
\* raises before a full mask is allocated, pasted or encoded, and returns
\* no encoded mask.
C8_NonGreyscaleFailsFast ==
    (Done /\ req.raster.mode # "L")
        => /\ res.outcome = "raise"
           /\ res.error = "AssertionError"
           /\ \A i \in 1..Len(res.steps) :
                  res.steps[i] \notin {"new", "paste", "point", "convert",
                                       "save", "b64encode"}

C8_Witness ==
    /\ Done
    /\ req.raster.mode = "RGB"
    /\ res.outcome = "raise"
    /\ res.steps = <<"envelope", "open">>

(***************************************************************************)
(* The task-type probes.                                                   *)
(***************************************************************************)
\* get_dataset_task_types with the loop over the detection tasks reduced to
\* the bounding-box task
get_dataset_task_types_bbox_only(d, dataset_name) ==
    LET seg == _instance_segmentations_in_dataset_statement(
                   dataset_name, None, None, NoTask)
        det(task) == _object_detections_in_dataset_statement(
                         dataset_name, task, None, None, NoTask)
    IN  IF seg.outcome = "raise" THEN seg
        ELSE IF det(BBOX_OBJECT_DETECTION).outcome = "raise"
        THEN det(BBOX_OBJECT_DETECTION)
        ELSE Return(
                 (IF Exists(d, seg.value)
                  THEN {INSTANCE_SEGMENTATION}
                  ELSE {})
                 \cup {task \in {BBOX_OBJECT_DETECTION} :
                          Exists(d, det(task).value)})

get_dataset_task_types(d, dataset_name) ==
    LET seg == _instance_segmentations_in_dataset_statement(
                   dataset_name, None, None, NoTask)
        det(task) == _object_detections_in_dataset_statement(
                         dataset_name, task, None, None, NoTask)
    IN  IF seg.outcome = "raise" THEN seg
        ELSE IF det(BBOX_OBJECT_DETECTION).outcome = "raise"
        THEN det(BBOX_OBJECT_DETECTION)
        ELSE IF det(POLY_OBJECT_DETECTION).outcome = "raise"
        THEN det(POLY_OBJECT_DETECTION)
        ELSE Return(
                 (IF Exists(d, seg.value)
                  THEN {INSTANCE_SEGMENTATION}
                  ELSE {})
                 \cup {task \in {BBOX_OBJECT_DETECTION, POLY_OBJECT_DETECTION} :
                          Exists(d, det(task).value)})

get_model_task_types(d, model_name, dataset_name) ==
    LET seg == _model_instance_segmentation_preds_statement(
                   model_name, dataset_name, None, None, NoTask)
        det(task) == _model_object_detection_preds_statement(
                         model_name, dataset_name, task, None, None, NoTask)
    IN  IF seg.outcome = "raise" THEN seg
        ELSE IF det(BBOX_OBJECT_DETECTION).outcome = "raise"
        THEN det(BBOX_OBJECT_DETECTION)
        ELSE IF det(POLY_OBJECT_DETECTION).outcome = "raise"
        THEN det(POLY_OBJECT_DETECTION)
        ELSE Return(
                 (IF Exists(d, seg.value)
                  THEN {INSTANCE_SEGMENTATION}
                  ELSE {})
                 \cup {task \in {BBOX_OBJECT_DETECTION, POLY_OBJECT_DETECTION} :
                          Exists(d, det(task).value)})

ProbeRequests ==
    {[op |-> "get_dataset_task_types", dataset_name |-> n] :
         n \in DatasetNames}
    \cup
    {[op |-> "get_model_task_types", model_name |-> m, dataset_name |-> n] :
         m \in ModelNames, n \in DatasetNames}

InitProbe ==
    /\ db \in Databases
    /\ req \in ProbeRequests
    /\ res = Pending

GetDatasetTaskTypes ==
    /\ req.op = "get_dataset_task_types"
    /\ res' = get_dataset_task_types(db, req.dataset_name)
    /\ UNCHANGED <<db, req>>

GetModelTaskTypes ==
    /\ req.op = "get_model_task_types"
    /\ res' = get_model_task_types(db, req.model_name, req.dataset_name)
    /\ UNCHANGED <<db, req>>

NextProbe ==
    \/ GetDatasetTaskTypes
    \/ GetModelTaskTypes

SpecProbe == InitProbe /\ [][NextProbe]_vars

(***************************************************************************)
(* The label ids of an image.                                              *)
(***************************************************************************)
LabelIdsOf(annotations) ==
    UNION {{a.labels[i] : i \in 1..Len(a.labels)} : a \in annotations}

\* _get_unique_label_ids_in_image without the loop over the classifications
_get_unique_label_ids_in_image_no_clf(d, image) ==
    Return(
        LabelIdsOf({a \in d.ground_truth_detections : a.image = image})
        \cup
        LabelIdsOf({a \in d.ground_truth_segmentations : a.image = image}))

_get_unique_label_ids_in_image(d, image) ==
    Return(
        LabelIdsOf({a \in d.ground_truth_detections : a.image = image})
        \cup
        {clf.label : clf \in {a \in d.ground_truth_classifications :
                                  a.image = image}}
        \cup
        LabelIdsOf({a \in d.ground_truth_segmentations : a.image = image}))

LabelRequests ==
    {[op |-> "_get_unique_label_ids_in_image", image |-> i] : i \in ImageIds}

InitLabels ==
    /\ db \in Databases
    /\ req \in LabelRequests
    /\ res = Pending

GetUniqueLabelIdsInImage ==
    /\ req.op = "_get_unique_label_ids_in_image"
    /\ res' = _get_unique_label_ids_in_image(db, req.image)
    /\ UNCHANGED <<db, req>>

NextLabels == GetUniqueLabelIdsInImage

SpecLabels == InitLabels /\ [][NextLabels]_vars

(***************************************************************************)
(* Every request.                                                          *)
(***************************************************************************)
Init == InitArea \/ InitMask \/ InitProbe \/ InitLabels

Next == NextArea \/ NextMask \/ NextProbe \/ NextLabels

Spec == Init /\ [][Next]_vars

(***************************************************************************)
(* Claims about the probes and the label ids (C9, C10).                    *)
(***************************************************************************)
ProbedKinds ==
    {INSTANCE_SEGMENTATION, BBOX_OBJECT_DETECTION, POLY_OBJECT_DETECTION}

\* whether annotation a is of task kind T
IsOfKind(a, T) ==
    CASE T = INSTANCE_SEGMENTATION ->
             a.table \in {"GroundTruthSegmentation", "PredictedSegmentation"}
             /\ a.is_instance
      [] T = BBOX_OBJECT_DETECTION ->
             a.table \in {"GroundTruthDetection", "PredictedDetection"}
             /\ a.is_bbox
      [] T = POLY_OBJECT_DETECTION ->
             a.table \in {"GroundTruthDetection", "PredictedDetection"}
             /\ ~a.is_bbox

\* the stored rows the probes count are labeled rows: a ground truth (or
\* predicted) annotation holds one per label attached to it
HoldsLabeledRow(annotations, T, dataset_name) ==
    \E a \in annotations :
        /\ IsOfKind(a, T)
        /\ Len(a.labels) > 0
        /\ \E i \in db.images : i.id = a.image /\ i.dataset = dataset_name

GroundTruthAnnotations ==
    db.ground_truth_detections \cup db.ground_truth_segmentations

PredictedAnnotations(model_name) ==
    {a \in db.predicted_detections \cup db.predicted_segmentations :
         a.model = model_name}

AttachedLabelIds(image) ==
    {l \in DOMAIN Labels :
        \/ \E a \in db.ground_truth_detections \cup
                    db.ground_truth_segmentations :
               a.image = image /\ \E i \in 1..Len(a.labels) : a.labels[i] = l
        \/ \E c \in db.ground_truth_classifications :
               c.image = image /\ c.label = l}

\* C10: the result is the set of the label ids attached to the detections,
\* classifications and segmentations of the image, one element per distinct
\* (key, value) pair attached.
C10_UniqueLabels ==
    (Done /\ req.op = "_get_unique_label_ids_in_image")
        => /\ res = Return(AttachedLabelIds(req.image))
           /\ Cardinality(res.value) =
                  Cardinality({Labels[l] : l \in AttachedLabelIds(req.image)})

\* two detections sharing one label and a classification with another
C10_Witness ==
    /\ Done
    /\ req.op = "_get_unique_label_ids_in_image"
    /\ \E a, b \in db.ground_truth_detections :
           /\ a # b
           /\ a.image = req.image /\ b.image = req.image
           /\ a.labels = <<1>> /\ b.labels = <<1>>
    /\ \E c \in db.ground_truth_classifications :
           c.image = req.image /\ c.label = 3
    /\ Cardinality(res.value) = 2

(***************************************************************************)
(* Claim about the statement builders (C11), under SpecArea.               *)
(***************************************************************************)
IsDetectionBuilderRequest ==
    req.op \in {"_object_detections_in_dataset_statement",
                "_model_object_detection_preds_statement"}

IsSegmentationBuilderRequest ==
    req.op \in {"_instance_segmentations_in_dataset_statement",
                "_model_instance_segmentation_preds_statement"}

AreaTaskOmitted == req.task_for_area_computation = NoTask

\* C11: a detection statement builder called with a valid detection task,
\* task_for_area_computation omitted and at least one bound present raises
\* the ValueError of the area filter (the task argument never stands in for
\* the area task); with both bounds absent the same call returns the
\* unfiltered statement of that task; a segmentation statement builder
\* called with the area task omitted and a bound present returns a statement
\* filtered by pixel count.
C11_DetectionBuildersNeedAreaTask ==
    /\ (/\ Done
        /\ IsDetectionBuilderRequest
        /\ req.task \in {BBOX_OBJECT_DETECTION, POLY_OBJECT_DETECTION}
        /\ AreaTaskOmitted)
           => IF BoundGiven
              THEN res = Raise("ValueError", AreaTaskMessage)
              ELSE /\ res.outcome = "return"
                   /\ res.value.where = << >>
                   /\ res.value.flag = (req.task = BBOX_OBJECT_DETECTION)
                   /\ res.value.dataset_name = req.dataset_name
    /\ (Done /\ IsSegmentationBuilderRequest /\ AreaTaskOmitted /\ BoundGiven)
           => /\ res.outcome = "return"
              /\ Len(res.value.where) = NumberOfBounds
              /\ \A i \in 1..Len(res.value.where) :
                     res.value.where[i].fn = PixelCount

C11_Witness ==
    /\ Done
    /\ req.op = "_object_detections_in_dataset_statement"
    /\ req.task = POLY_OBJECT_DETECTION
    /\ AreaTaskOmitted
    /\ req.min_area = Some(4)
    /\ req.max_area = None
    /\ res = Raise("ValueError", AreaTaskMessage)

====
